---------------------------- MODULE Spec2Model ----------------------------
(***************************************************************************)
(* FilterObjects (pyCellProfiler/cellprofiler/modules/filterobjects.py):   *)
(* the selection strategies (keep_one, keep_per_object,                    *)
(* keep_within_limits, keep_by_rules), the relabelling done by run and     *)
(* validate_module.                                                        *)
(*                                                                         *)
(* Conventions.  A numpy array of n elements is a TLA+ sequence or a       *)
(* function whose domain says how it is indexed: a measurement vector is a *)
(* sequence (element i of the sequence is values[i-1] of the code), a      *)
(* lookup table indexed by label is a function on 0..n-1.  A label raster  *)
(* is a one-row 2-D array of shape (1, NPix): pixel p of the model is      *)
(* position (0, p-1) of the code.  Floating point values are integers,     *)
(* with PosInf / NegInf standing for +-infinity and NaN for not-a-number   *)
(* (which compares false with everything).  A call that may raise returns  *)
(* a record [exc, val]: exc = "none" and the value, or the exception.      *)
(***************************************************************************)
EXTENDS Integers, Sequences, FiniteSets, TLC

\* ------------------------------------------------------------- bounds
\* pixels of the primary / enclosing raster
NPix == 2
\* largest label value of a primary raster
MaxLab == 2
\* largest number of rows of a measurement vector
MaxN == 2
\* largest number of additional objects of a saved module, and of setting
\* groups of a module before its settings are read
MaxSlots == 2

\* ------------------------------------------------------------- constants
FI_MINIMAL == "Minimal"
FI_MAXIMAL == "Maximal"
FI_MINIMAL_PER_OBJECT == "Minimal per object"
FI_MAXIMAL_PER_OBJECT == "Maximal per object"
FI_LIMITS == "Limits"
FI_ALL == {FI_MINIMAL, FI_MAXIMAL, FI_MINIMAL_PER_OBJECT, FI_MAXIMAL_PER_OBJECT,
           FI_LIMITS}
ROM_RULES == "Rules"
ROM_MEASUREMENTS == "Measurements"

\* ------------------------------------------------------------- values
\* the defaults of the settings min_limit and max_limit
min_limit_default == 0
max_limit_default == 1
\* finite measurement values: below, at and above each of the limits
Vals == (min_limit_default - 1)..(max_limit_default + 1)
PosInf == max_limit_default + 2
NegInf == min_limit_default - 2
NaN == max_limit_default + 3
\* score values of the rules: finite, infinite or not a number
ScoreVals == {NegInf, 0, 1, PosInf, NaN}

isnan(x) == x = NaN
\* mutant of Lt: the comparison written <=
Le(a, b) == ~isnan(a) /\ ~isnan(b) /\ a <= b
\* the float comparisons: false as soon as one side is NaN
Lt(a, b) == ~isnan(a) /\ ~isnan(b) /\ a < b
\* mutant of Gt: the comparison written >=
Ge(a, b) == ~isnan(a) /\ ~isnan(b) /\ a >= b
Gt(a, b) == ~isnan(a) /\ ~isnan(b) /\ a > b

Ok(v) == [exc |-> "none", val |-> v]
Raise(e) == [exc |-> e, val |-> <<>>]

Range(f) == {f[x] : x \in DOMAIN f}

\* sequences over S of length 0..n
SeqUpTo(S, n) == UNION {[1..k -> S] : k \in 0..n}

RECURSIVE SortSet(_)
\* list(set), then list.sort(): the elements of S in ascending order
SortSet(S) ==
    IF S = {} THEN <<>>
    ELSE LET m == CHOOSE x \in S : \A y \in S : x <= y
         IN  <<m>> \o SortSet(S \ {m})

\* np.max of a non-empty array
ArrMax(a) == CHOOSE m \in Range(a) : \A x \in Range(a) : x <= m

Pix == 1..NPix
Rasters == [Pix -> 0..MaxLab]
\* an additional object's raster, here of shape (1, 2); its labels may exceed
\* the primary raster's, and a corrupt one holds negative labels.  The
\* relabelling works pixel by pixel, so the rasters are taken up to the order
\* of their two pixels.
AddRasters == {r \in [1..2 -> (0 - 2)..(MaxLab + 1)] : r[1] <= r[2]}

\* the objects the object set may hold for a segmentation: the unedited
\* segmentation is a raster of its own, different from the labels at every
\* pixel, and there is a parent image or none
ObjectsOf(labels) ==
    [segmented : {labels},
     unedited_segmented : {[p \in DOMAIN labels |-> labels[p] + 1]},
     parent_image : {"none", "image"}]

\* mutant of argwhere1: the + 1 forgotten
argwhere0(hits) ==
    SortSet({i - 1 : i \in {j \in 1..Len(hits) : hits[j]}})

\* np.argwhere(hits)[:,0] + 1: the 1-based places of the True entries, ascending
argwhere1(hits) ==
    SortSet({(i - 1) + 1 : i \in {j \in 1..Len(hits) : hits[j]}})


\* ------------------------------------------------------------- keep_one
\* mutant of argmax: the place of the last occurrence
argmax_last(values) ==
    (CHOOSE i \in 1..Len(values) :
        /\ \A j \in 1..Len(values) : values[j] <= values[i]
        /\ \A j \in (i + 1)..Len(values) : values[j] < values[i]) - 1

\* np.argmax: the 0-based place of the first occurrence of the largest value
argmax(values) ==
    (CHOOSE i \in 1..Len(values) :
        /\ \A j \in 1..Len(values) : values[j] <= values[i]
        /\ \A j \in 1..(i - 1) : values[j] < values[i]) - 1

\* np.argmin: the 0-based place of the first occurrence of the smallest value
argmin(values) ==
    (CHOOSE i \in 1..Len(values) :
        /\ \A j \in 1..Len(values) : values[j] >= values[i]
        /\ \A j \in 1..(i - 1) : values[j] > values[i]) - 1

\* the single object to keep, as a 1-based index
keep_one(values, choice) ==
    IF Len(values) = 0
    THEN <<>>
    ELSE LET best_idx == (IF choice = FI_MAXIMAL THEN argmax(values)
                          ELSE argmin(values)) + 1
         IN  <<best_idx>>

\* ------------------------------------------------------------- keep_per_object
\* mutant of tricky_values: the two sentinels exchanged
tricky_values_swapped(values, wants_max) ==
    [k \in 0..Len(values) |->
        IF k = 0 THEN (IF wants_max THEN PosInf ELSE NegInf) ELSE values[k]]

\* the measurement per label index, the never-winning sentinel at index 0
tricky_values(values, wants_max) ==
    [k \in 0..Len(values) |->
        IF k = 0 THEN (IF wants_max THEN NegInf ELSE PosInf) ELSE values[k]]

\* scipy.ndimage maximum_position / minimum_position for one label e: a pixel
\* of region e holding the region's extreme value (which one of several is
\* left to the sort, so any); a label with no pixel gets position 0, that is
\* pixel (0, 0)
extreme_position(src_values, labels, e, wants_max) ==
    LET region == {p \in DOMAIN labels : labels[p] = e}
    IN  IF region = {}
        THEN {0 + 1}
        ELSE {p \in region : \A q \in region :
                 IF wants_max THEN src_values[q] <= src_values[p]
                 ELSE src_values[q] >= src_values[p]}

\* fn(src_values, enclosing_labels, enclosing_range): one position per label
\* of enclosing_range = 1..enclosing_max; the set of the results it may give
best_positions(src_values, labels, enclosing_max, wants_max) ==
    LET found == [e \in 1..enclosing_max |->
                    extreme_position(src_values, labels, e, wants_max)]
    IN  {bp \in [1..enclosing_max -> UNION Range(found)] :
            \A e \in 1..enclosing_max : bp[e] \in found[e]}

\* mutant of per_object_indexes: the leading 0 kept
per_object_indexes_with_zero(src_labels, best_pos) ==
    SortSet({src_labels[best_pos[e]] : e \in DOMAIN best_pos})

\* indexes = src_labels[best_pos]; set; sorted list; a leading 0 dropped
per_object_indexes(src_labels, best_pos) ==
    LET indexes == SortSet({src_labels[best_pos[e]] : e \in DOMAIN best_pos})
    IN  IF Len(indexes) > 0 /\ indexes[1] = 0 THEN Tail(indexes) ELSE indexes

\* the best object per enclosing object: the set of outcomes [exc, val, pos]
\* (pos: the position found for each enclosing label)
keep_per_object(values, src_labels, enclosing_labels, choice) ==
    LET enclosing_max == ArrMax(enclosing_labels)
        wants_max == choice = FI_MAXIMAL_PER_OBJECT
        tricky == tricky_values(values, wants_max)
    IN  IF enclosing_max = 0
        THEN {[exc |-> "none", val |-> <<>>, pos |-> <<>>]}
        ELSE IF \E p \in DOMAIN src_labels : src_labels[p] > Len(values)
        THEN {[exc |-> "IndexError", val |-> <<>>, pos |-> <<>>]}
        ELSE LET src_values == [p \in DOMAIN src_labels |-> tricky[src_labels[p]]]
             IN  {[exc |-> "none", val |-> per_object_indexes(src_labels, bp),
                   pos |-> bp] :
                     bp \in best_positions(src_values, enclosing_labels,
                                           enclosing_max, wants_max)}

\* ------------------------------------------------------------- keep_within_limits
\* a measurement group of the settings, its limits the defaults, with the
\* values of its measurement
Groups ==
    [values : SeqUpTo(Vals, MaxN), wants_minimum : BOOLEAN,
     min_limit : {min_limit_default}, wants_maximum : BOOLEAN,
     max_limit : {max_limit_default}]

\* a[mask] = False, mask a boolean array.  When the mask is shorter than a,
\* a numpy that checks the lengths raises IndexError and a lenient (older) one
\* applies the mask to the first len(mask) elements.
mask_false(a, mask, lenient) ==
    IF Len(mask) = Len(a) \/ (lenient /\ Len(mask) < Len(a))
    THEN Ok([i \in 1..Len(a) |-> IF i <= Len(mask) /\ mask[i] THEN FALSE ELSE a[i]])
    ELSE Raise("IndexError")

\* the body of the loop for one group; hits is <<>> for None, <<array>> otherwise
limits_group(hits, group, lenient) ==
    LET values == group.values
        n == Len(values)
        ones == [i \in 1..n |-> TRUE]
        h0 == IF hits = <<>> THEN Ok(ones)
              ELSE IF Len(hits[1]) < n
              THEN mask_false(ones, [i \in 1..Len(hits[1]) |-> ~hits[1][i]], lenient)
              ELSE Ok(hits[1])
        low == [i \in 1..n |-> Lt(values[i], group.min_limit)]
        high == [i \in 1..n |-> Gt(values[i], group.max_limit)]
        h1 == IF h0.exc = "none" /\ group.wants_minimum
              THEN mask_false(h0.val, low, lenient) ELSE h0
        h2 == IF h1.exc = "none" /\ group.wants_maximum
              THEN mask_false(h1.val, high, lenient) ELSE h1
    IN  IF h2.exc = "none" THEN Ok(<<h2.val>>) ELSE h2

RECURSIVE limits_loop(_, _, _, _)
\* for group in self.measurements, from group k on
limits_loop(groups, k, hits, lenient) ==
    IF k > Len(groups)
    THEN Ok(hits)
    ELSE LET r == limits_group(hits, groups[k], lenient)
         IN  IF r.exc = "none" THEN limits_loop(groups, k + 1, r.val, lenient)
             ELSE r

\* the indices of the objects to keep; np.argwhere(None)[:,0] raises
keep_within_limits(groups, lenient) ==
    LET r == limits_loop(groups, 1, <<>>, lenient)
    IN  IF r.exc # "none" THEN r
        ELSE IF r.val = <<>> THEN Raise("IndexError")
        ELSE Ok(argwhere1(r.val[1]))

\* ------------------------------------------------------------- keep_by_rules
\* scores: one row <<positive, negative>> per object
keep_by_rules(scores) ==
    LET s0 == [i \in 1..Len(scores) |->
                 IF isnan(scores[i][1]) THEN NegInf ELSE scores[i][1]]
        s1 == [i \in 1..Len(scores) |->
                 IF isnan(scores[i][2]) THEN PosInf ELSE scores[i][2]]
        hits == [i \in 1..Len(scores) |-> Gt(s0[i], s1[i])]
    IN  argwhere1(hits)

\* ------------------------------------------------------------- run
\* mutant of build_label_indexes: the new labels numbered from 0 (np.arange(0, n))
build_label_indexes_from_zero(indexes, max_label) ==
    IF \E k \in 1..Len(indexes) : indexes[k] > max_label
    THEN Raise("IndexError")
    ELSE Ok([v \in 0..max_label |->
                IF \E k \in 1..Len(indexes) : indexes[k] = v
                THEN (CHOOSE k \in 1..Len(indexes) : indexes[k] = v) - 1
                ELSE 0])

\* label_indexes = np.zeros((max_label+1,), int);
\* label_indexes[indexes] = np.arange(1, new_object_count+1)
build_label_indexes(indexes, max_label) ==
    IF \E k \in 1..Len(indexes) : indexes[k] > max_label
    THEN Raise("IndexError")
    ELSE Ok([v \in 0..max_label |->
                IF \E k \in 1..Len(indexes) : indexes[k] = v
                THEN CHOOSE k \in 1..Len(indexes) :
                        /\ indexes[k] = v
                        /\ \A j \in (k + 1)..Len(indexes) : indexes[j] # v
                ELSE 0])

\* a[i] for an array a of n elements: numpy counts a negative i from the end
item(a, n, i) == IF i < 0 THEN a[n + i] ELSE a[i]

\* mutant of relabel: the clamp written >= max_label
relabel_clamp_at_max(src_labels, label_indexes, max_label) ==
    LET clamped == [p \in DOMAIN src_labels |->
                      IF src_labels[p] >= max_label THEN 0 ELSE src_labels[p]]
    IN  [p \in DOMAIN src_labels |-> item(label_indexes, max_label + 1, clamped[p])]

\* mutant of relabel: no clamp, a label the table does not know passed through
relabel_pass_through(src_labels, label_indexes, max_label) ==
    [p \in DOMAIN src_labels |->
        IF src_labels[p] \in DOMAIN label_indexes THEN label_indexes[src_labels[p]]
        ELSE src_labels[p]]

\* label_indexes[target_labels] raises IndexError: a label below -(max_label+1)
\* (a label above max_label has been set to 0 before)
relabel_raises(src_labels, max_label) ==
    \E p \in DOMAIN src_labels : src_labels[p] < 0 - (max_label + 1)

\* target_labels[target_labels > max_label] = 0;
\* target_labels = label_indexes[target_labels]
relabel(src_labels, label_indexes, max_label) ==
    LET clamped == [p \in DOMAIN src_labels |->
                      IF src_labels[p] > max_label THEN 0 ELSE src_labels[p]]
    IN  [p \in DOMAIN src_labels |-> item(label_indexes, max_label + 1, clamped[p])]

\* mutant of make_target: the unedited segmentation taken from the new labels
make_target_edited(src_objects, target_labels, indexes) ==
    [src |-> src_objects.segmented,
     src_unedited |-> src_objects.unedited_segmented,
     src_parent_image |-> src_objects.parent_image,
     segmented |-> target_labels,
     unedited_segmented |-> target_labels,
     parent_image |-> src_objects.parent_image,
     parent |-> indexes]

\* mutant of parent_record: the new numbers of the objects instead of the old
parent_record_new(indexes) == [j \in 1..Len(indexes) |-> j]

\* np.array(indexes), stored as the measurement FF_PARENT % src_name
parent_record(indexes) == [j \in 1..Len(indexes) |-> indexes[j]]

\* what one pass of the loop adds to the workspace: the target objects (new
\* labels, the source's unedited segmentation, its parent image if it has one,
\* "none" otherwise) and the parent measurement, with the source they were
\* made from
make_target(src_objects, target_labels, indexes) ==
    [src |-> src_objects.segmented,
     src_unedited |-> src_objects.unedited_segmented,
     src_parent_image |-> src_objects.parent_image,
     segmented |-> target_labels,
     unedited_segmented |-> src_objects.unedited_segmented,
     parent_image |-> IF src_objects.parent_image # "none"
                      THEN src_objects.parent_image ELSE "none",
     parent |-> parent_record(indexes)]

\* ------------------------------------------------------------- validate_module
\* mutant of validate_module: the limits refused only when no group has a bound
validate_module_all(rom, choice, groups, error) ==
    IF /\ rom = ROM_MEASUREMENTS /\ choice = FI_LIMITS
       /\ \A k \in 1..Len(groups) :
             groups[k].wants_minimum = FALSE /\ groups[k].wants_maximum = FALSE
    THEN Raise("ValidationError")
    ELSE IF rom = ROM_RULES /\ error # "none"
    THEN Raise("ValidationError")
    ELSE Ok(<<>>)

\* error: what get_rules raises, "none" if the rules load
validate_module(rom, choice, groups, error) ==
    IF /\ rom = ROM_MEASUREMENTS /\ choice = FI_LIMITS
       /\ \E k \in 1..Len(groups) :
             groups[k].wants_minimum = FALSE /\ groups[k].wants_maximum = FALSE
    THEN Raise("ValidationError")
    ELSE IF rom = ROM_RULES /\ error # "none"
    THEN Raise("ValidationError")
    ELSE Ok(<<>>)

\* ------------------------------------------------------------- saved settings
module_name == "FilterObjects"
variable_revision_number == 4

\* a module as saved: setting_values is the list of strings of the file
Saved(values, revision, name, matlab) ==
    [setting_values |-> values, variable_revision_number |-> revision,
     module_name |-> name, from_matlab |-> matlab]

\* a module that was made by create_settings and not read from a file
not_saved == Saved(<<>>, variable_revision_number, module_name, FALSE)

\* ------------------------------------------------------------- upgrade_settings
\* the strings of cellprofiler.settings
YES == "Yes"
NO == "No"
DO_NOT_USE == "Do not use"
DIR_DEFAULT_INPUT == "Default input folder"
DIR_DEFAULT_OUTPUT == "Default output folder"
DIR_CUSTOM == "Custom folder"

\* s[i], s[a:b] and s[a:] of a Python list (i, a, b count from 0)
at(s, i) == s[i + 1]
slice(s, a, b) == SubSeq(s, a + 1, IF b < Len(s) THEN b ELSE Len(s))
from(s, a) == SubSeq(s, a + 1, Len(s))

RECURSIVE join(_)
\* '_'.join(parts)
join(parts) ==
    IF Len(parts) = 0 THEN ""
    ELSE IF Len(parts) = 1 THEN parts[1]
    ELSE parts[1] \o "_" \o join(Tail(parts))

\* str(n) and int(s) of a count
str(n) == <<"0", "1", "2", "3", "4", "5", "6", "7", "8", "9">>[n + 1]
is_int(s) == \E n \in 0..9 : str(n) = s
int(s) == CHOOSE n \in 0..9 : str(n) = s

\* the state of a call of upgrade_settings: its four arguments as they are
\* reassigned, and the exception raised
failed(u, e) == [u EXCEPT !.exc = e]

\* lines 644-663: Matlab's KeepLargestObject
upgrade_keep_largest(u) ==
    LET v == u.setting_values
    IN  IF u.module_name = "KeepLargestObject" /\ u.from_matlab
           /\ u.variable_revision_number = 1
        THEN IF Len(v) < 3 THEN failed(u, "IndexError")
             ELSE [u EXCEPT
                     !.setting_values =
                         <<at(v, 1), at(v, 2), "AreaShape_Area", FI_MAXIMAL_PER_OBJECT,
                           at(v, 0), YES, "0", YES, "1", NO, "None">>,
                     !.from_matlab = FALSE,
                     !.variable_revision_number = 1,
                     !.module_name = module_name]
        ELSE u

\* lines 664-671: the first two settings swapped
upgrade_matlab_5(u) ==
    LET v == u.setting_values
    IN  IF u.module_name = "FilterByObjectMeasurement" /\ u.from_matlab
           /\ u.variable_revision_number = 5
        THEN IF Len(v) < 2 THEN failed(u, "IndexError")
             ELSE [u EXCEPT
                     !.setting_values = <<at(v, 1), at(v, 0)>> \o from(v, 2),
                     !.variable_revision_number = 6]
        ELSE u

\* wants_minimum, min_limit (wants_maximum, max_limit) of a Matlab limit
limit_settings(value, none, default) ==
    IF value = none THEN <<NO, default>> ELSE <<YES, value>>

\* wants_outlines, outlines_name of a Matlab outline name
outline_settings(value) ==
    IF value = DO_NOT_USE THEN <<NO, "None">> ELSE <<YES, value>>

\* lines 673-705: Matlab's FilterByObjectMeasurement, revision 6
upgrade_matlab_6(u) ==
    LET v == u.setting_values
    IN  IF u.module_name = "FilterByObjectMeasurement" /\ u.from_matlab
           /\ u.variable_revision_number = 6
        THEN IF Len(v) < 9 THEN failed(u, "IndexError")
             ELSE [u EXCEPT
                     !.setting_values =
                         <<at(v, 0), at(v, 1), join(<<at(v, 2), at(v, 3)>>),
                           FI_LIMITS, "None">>
                         \o limit_settings(at(v, 6), "No minimum", "0")
                         \o limit_settings(at(v, 7), "No maximum", "1")
                         \o outline_settings(at(v, 8)),
                     !.module_name = module_name,
                     !.from_matlab = FALSE,
                     !.variable_revision_number = 1]
        ELSE u

\* lines 706-766: Matlab's FilterByObjectMeasurement, revision 7.  The local
\* rules_directory_choice is bound only when there is a rules file; reading
\* it unbound raises UnboundLocalError.
upgrade_matlab_7(u) ==
    LET v == u.setting_values
    IN  IF u.from_matlab /\ u.module_name = "FilterByObjectMeasurement"
           /\ u.variable_revision_number = 7
        THEN IF Len(v) # 11 THEN failed(u, "ValueError")
             ELSE LET target_name == at(v, 0)
                      object_name == at(v, 1)
                      category == at(v, 2)
                      feature == at(v, 3)
                      image == at(v, 4)
                      scale == at(v, 5)
                      min_value1 == at(v, 6)
                      max_value1 == at(v, 7)
                      save_outlines == at(v, 8)
                      rules_file_name == at(v, 9)
                      rules_path_name == at(v, 10)
                      parts == <<category, feature>>
                               \o (IF image # "" THEN <<image>> ELSE <<>>)
                               \o (IF scale # "" THEN <<scale>> ELSE <<>>)
                      measurement == join(parts)
                      rules_or_measurements ==
                          IF rules_file_name = DO_NOT_USE THEN ROM_MEASUREMENTS
                          ELSE ROM_RULES
                      rules_directory_choice ==
                          IF rules_path_name = "." THEN DIR_DEFAULT_OUTPUT
                          ELSE IF rules_path_name = "&" THEN DIR_DEFAULT_INPUT
                          ELSE DIR_CUSTOM
                  IN  IF rules_file_name = DO_NOT_USE
                      THEN failed(u, "UnboundLocalError")
                      ELSE [u EXCEPT
                              !.setting_values =
                                  <<target_name, object_name, measurement, FI_LIMITS,
                                    "None">>
                                  \o limit_settings(min_value1, "No minimum", "0")
                                  \o limit_settings(max_value1, "No maximum", "1")
                                  \o outline_settings(save_outlines)
                                  \o <<rules_or_measurements, rules_directory_choice,
                                       rules_path_name, rules_file_name>>,
                              !.variable_revision_number = 3,
                              !.module_name = module_name,
                              !.from_matlab = FALSE]
        ELSE u

\* lines 768-775: the rules settings added
upgrade_1(u) ==
    LET v == u.setting_values
    IN  IF ~u.from_matlab /\ u.variable_revision_number = 1
        THEN [u EXCEPT
                !.setting_values = slice(v, 0, 11)
                                   \o <<ROM_MEASUREMENTS, DIR_DEFAULT_INPUT, ".">>
                                   \o from(v, 11),
                !.variable_revision_number = 2]
        ELSE u

\* lines 776-782: the rules file name added
upgrade_2(u) ==
    LET v == u.setting_values
    IN  IF ~u.from_matlab /\ u.variable_revision_number = 2
        THEN [u EXCEPT
                !.setting_values = slice(v, 0, 14) \o <<"rules.txt">> \o from(v, 14),
                !.variable_revision_number = 3]
        ELSE u

\* lines 783-803: the measurements and the additional objects counted
upgrade_3(u) ==
    LET v == u.setting_values
    IN  IF ~u.from_matlab /\ u.variable_revision_number = 3
        THEN IF Len(v) < 15 THEN failed(u, "ValueError")
             ELSE LET additional_object_settings == from(v, 15)
                      additional_object_count == Len(additional_object_settings) \div 4
                  IN  [u EXCEPT
                         !.setting_values =
                             <<at(v, 0), at(v, 1), at(v, 11), at(v, 3), at(v, 4),
                               at(v, 9), at(v, 10), at(v, 12), at(v, 13), at(v, 14),
                               "1", str(additional_object_count),
                               at(v, 2), at(v, 5), at(v, 6), at(v, 7), at(v, 8)>>
                             \o additional_object_settings,
                         !.variable_revision_number = 4]
        ELSE u

\* one block of upgrade_settings after the other; an exception ends the call
then(u, block(_)) == IF u.exc = "none" THEN block(u) ELSE u

upgrade_settings(setting_values, revision, name, from_matlab) ==
    LET u0 == [setting_values |-> setting_values, variable_revision_number |-> revision,
               module_name |-> name, from_matlab |-> from_matlab, exc |-> "none"]
        u1 == then(u0, upgrade_keep_largest)
        u2 == then(u1, upgrade_matlab_5)
        u3 == then(u2, upgrade_matlab_6)
        u4 == then(u3, upgrade_matlab_7)
        u5 == then(u4, upgrade_1)
        u6 == then(u5, upgrade_2)
    IN  then(u6, upgrade_3)

\* ------------------------------------------------------------- prepare_settings
\* the measurement group add_measurement appends, its values not yet read
new_measurement ==
    [values |-> <<>>, wants_minimum |-> TRUE, min_limit |-> min_limit_default,
     wants_maximum |-> TRUE, max_limit |-> max_limit_default]

RECURSIVE add_additional_objects(_, _)
\* while len(self.additional_objects) < additional_object_count:
\*     self.add_additional_object()
\* (n: the number of additional objects)
add_additional_objects(n, count) ==
    IF n < count THEN add_additional_objects(n + 1, count) ELSE n

RECURSIVE del_measurements(_, _)
\* while len(self.measurements) > measurement_count: del self.measurements[-1]
del_measurements(groups, count) ==
    IF Len(groups) > count
    THEN del_measurements(SubSeq(groups, 1, Len(groups) - 1), count)
    ELSE groups

RECURSIVE add_measurements(_, _)
\* while len(self.measurements) < measurement_count: self.add_measurement()
add_measurements(groups, count) ==
    IF Len(groups) < count
    THEN add_measurements(Append(groups, new_measurement), count)
    ELSE groups

\* n additional objects and the measurement groups before the call; the
\* outcome [exc, additional, groups].  The class defines add_additional_object
\* and no remove_additional_object, and add_additional_object appends no key
\* to the groups it makes: the body of the first loop raises AttributeError.
prepare_settings(n, groups, setting_values) ==
    LET unchanged(e) == [exc |-> e, additional |-> n, groups |-> groups]
    IN  IF Len(setting_values) < 12 THEN unchanged("IndexError")
        ELSE IF ~is_int(at(setting_values, 11)) THEN unchanged("ValueError")
        ELSE IF n > int(at(setting_values, 11)) THEN unchanged("AttributeError")
        ELSE LET additional == add_additional_objects(n, int(at(setting_values, 11)))
             IN  IF ~is_int(at(setting_values, 10))
                 THEN [exc |-> "ValueError", additional |-> additional,
                       groups |-> groups]
                 ELSE LET measurement_count == int(at(setting_values, 10))
                      IN  [exc |-> "none", additional |-> additional,
                           groups |-> add_measurements(
                                          del_measurements(groups, measurement_count),
                                          measurement_count)]

\* ------------------------------------------------------------- state
VARIABLES
    rules_or_measurement,  \* setting: ROM_MEASUREMENTS or ROM_RULES
    filter_choice,         \* setting: one of FI_ALL
    additional_objects,    \* setting: the number of additional objects
    measurement_count,     \* setting: the number of measurement groups
    rules_error,           \* what get_rules raises for the rules file, or "none"
    saved,                 \* the module as a pipeline file holds it: the setting
                           \* values, their revision, the module name, from_matlab
    segmented,             \* the labels of the objects to filter (object_name)
    measurements,          \* the measurement groups with their values
    enclosing_labels,      \* the labels of the enclosing objects
    pc,                    \* where the operation stands
    exc,                   \* the exception raised, "none" if none
    indexes,               \* the selection: the 1-based indexes kept
    best_pos,              \* keep_per_object: the position per enclosing label
    nvalues,               \* the number of rows of the measurement used
    label_indexes,         \* run: old label -> new label
    targets                \* run: the objects added to the object set, in order

vars == <<rules_or_measurement, filter_choice, additional_objects,
          measurement_count, rules_error, saved, segmented, measurements, enclosing_labels, pc, exc, indexes, best_pos,
          nvalues, label_indexes, targets>>

settings_and_objects ==
    <<rules_or_measurement, filter_choice, additional_objects, measurement_count,
      rules_error, saved, segmented>>
function_inputs == <<measurements, enclosing_labels>>

\* max_label = np.max(src_objects.segmented)
max_label == ArrMax(segmented)
\* new_object_count = len(indexes)
new_object_count == Len(indexes)

\* ------------------------------------------------------------- run, step by step
\* The outcomes [exc, val, n] of each strategy over the measurements the
\* workspace may hold (n: their number of rows).
rules_selections ==
    {[exc |-> "none", val |-> keep_by_rules(sc), n |-> Len(sc)] :
        sc \in SeqUpTo(ScoreVals \X ScoreVals, MaxN)}

one_selections ==
    [choice \in {FI_MINIMAL, FI_MAXIMAL} |->
        {[exc |-> "none", val |-> keep_one(v, choice), n |-> Len(v)] :
            v \in SeqUpTo(Vals, MaxN)}]

\* with at most one enclosing object (SpecPerObject has them all)
per_object_selections(choice, src_labels) ==
    UNION {{[exc |-> r.exc, val |-> r.val, n |-> Len(x[1])] :
               r \in keep_per_object(x[1], src_labels, x[2], choice)} :
           x \in SeqUpTo(Vals, MaxN) \X [Pix -> 0..1]}

\* with the one measurement group create_settings makes, or none
limits_selections ==
    [count \in 0..1 |->
        {LET r == keep_within_limits(gs, FALSE)
         IN  [exc |-> r.exc, val |-> r.val,
              n |-> IF Len(gs) = 0 THEN 0 ELSE Len(gs[1].values)] :
            gs \in [1..count -> Groups]}]

\* get_rules raises: what keep_by_rules lets through
rules_failure(error) == {[exc |-> error, val |-> <<>>, n |-> 0]}
\* self.measurements[0] of an empty list
no_measurement == {[exc |-> "IndexError", val |-> <<>>, n |-> 0]}

\* The dispatch of run.  filter_choice is a Choice over FI_ALL, so the
\* ValueError branch is never taken.
selections(rom, choice, src_labels, count, error) ==
    IF rom = ROM_RULES
    THEN (IF error # "none" THEN rules_failure(error) ELSE rules_selections)
    ELSE IF choice \in {FI_MINIMAL, FI_MAXIMAL}
    THEN (IF count = 0 THEN no_measurement ELSE one_selections[choice])
    ELSE IF choice \in {FI_MINIMAL_PER_OBJECT, FI_MAXIMAL_PER_OBJECT}
    THEN (IF count = 0 THEN no_measurement
          ELSE per_object_selections(choice, src_labels))
    ELSE limits_selections[count]

\* run, lines 324-336: the selection
run_select ==
    /\ pc = "select"
    /\ \E r \in selections(rules_or_measurement, filter_choice, segmented,
                          measurement_count, rules_error) :
          /\ exc' = r.exc
          /\ indexes' = r.val
          /\ nvalues' = r.n
          /\ pc' = IF r.exc = "none" THEN "remap" ELSE "raised"
    /\ UNCHANGED <<settings_and_objects, function_inputs, best_pos, label_indexes,
                   targets>>

\* run, lines 342-345: the table from old label to new label
run_remap ==
    /\ pc = "remap"
    /\ LET r == build_label_indexes(indexes, max_label)
       IN  /\ exc' = r.exc
           /\ label_indexes' = r.val
           /\ pc' = IF r.exc = "none" THEN "objects" ELSE "raised"
    /\ UNCHANGED <<settings_and_objects, function_inputs, indexes, best_pos,
                   nvalues, targets>>

\* run, lines 355-383: one pass of the loop over object_list, the primary
\* objects first and then each additional object, as workspace.get_objects
\* hands them over; what the pass adds to the workspace is in targets
run_object ==
    /\ pc = "objects"
    /\ \E src \in (IF Len(targets) = 0 THEN {segmented} ELSE AddRasters) :
       \E src_objects \in ObjectsOf(src) :
          IF relabel_raises(src, max_label)
          THEN /\ exc' = "IndexError"
               /\ pc' = "raised"
               /\ UNCHANGED targets
          ELSE LET target_labels == relabel(src, label_indexes, max_label)
               IN  /\ targets' = Append(targets, make_target(src_objects,
                                                            target_labels, indexes))
                   /\ pc' = IF Len(targets) + 1 = 1 + additional_objects
                            THEN "done" ELSE "objects"
                   /\ UNCHANGED exc
    /\ UNCHANGED <<settings_and_objects, function_inputs, indexes, best_pos,
                   nvalues, label_indexes>>

Init ==
    /\ rules_or_measurement \in {ROM_MEASUREMENTS, ROM_RULES}
    /\ filter_choice \in (IF rules_or_measurement = ROM_RULES THEN {FI_LIMITS}
                          ELSE FI_ALL)
    /\ additional_objects \in 0..1
    /\ measurement_count \in (IF rules_or_measurement = ROM_RULES THEN {1} ELSE 0..1)
    /\ rules_error \in (IF rules_or_measurement = ROM_RULES THEN {"none", "IOError"}
                        ELSE {"none"})
    /\ saved = not_saved
    /\ segmented \in Rasters
    /\ measurements = <<>>
    /\ enclosing_labels = <<>>
    /\ pc = "select"
    /\ exc = "none"
    /\ indexes = <<>>
    /\ best_pos = <<>>
    /\ nvalues = 0
    /\ label_indexes = <<>>
    /\ targets = <<>>

Next == run_select \/ run_remap \/ run_object

Spec == Init /\ [][Next]_vars

\* ------------------------------------------------------------- claims on run
survivors == Range(indexes)
\* the rank of v among the survivors, 1-based and ascending
rank(v) == Cardinality({x \in survivors : x <= v})
table_built == pc \in {"objects", "done"}
nonzero(raster) == Range(raster) \ {0}
\* a label raster holds no negative value
label_raster(raster) == \A p \in DOMAIN raster : raster[p] >= 0

\* C1: the remap table run builds has length max_label+1 and maps 0 to 0; its
\* non-zero entries are exactly 1..K, K the number of survivors; it is
\* increasing on the survivors and maps every other index to 0.
C1_RemapTable ==
    table_built =>
        /\ DOMAIN label_indexes = 0..max_label
        /\ label_indexes[0] = 0
        /\ Range(label_indexes) \ {0} = 1..new_object_count
        /\ \A a, b \in survivors : a < b => label_indexes[a] < label_indexes[b]
        /\ \A v \in 0..max_label : v \notin survivors => label_indexes[v] = 0

\* a table built for two survivors
C1_Witness ==
    pc = "objects" /\ indexes = <<1, 2>> /\ label_indexes[1] = 1 /\ label_indexes[2] = 2

\* C2: every relabelled label raster, primary or linked, has the shape of its
\* source; a pixel whose old label is a survivor carries that label's rank
\* among the survivors, every other pixel (background, a removed label, a
\* label above the primary max_label) carries 0.
C2_Relabel ==
    \A k \in 1..Len(targets) :
        LET t == targets[k]
        IN  label_raster(t.src) =>
            /\ DOMAIN t.segmented = DOMAIN t.src
            /\ \A p \in DOMAIN t.src :
                  t.segmented[p] = IF t.src[p] \in survivors THEN rank(t.src[p]) ELSE 0

\* a linked raster with a stale label above max_label and a surviving label that
\* gets a new index different from the old one
C2_Witness ==
    /\ pc = "done" /\ Len(targets) = 2
    /\ \E p, q \in DOMAIN targets[2].src :
          /\ targets[2].src[p] > max_label
          /\ targets[2].src[q] = 2 /\ targets[2].segmented[q] = 1

\* C3 as claimed: with one measurement value per distinct non-zero label, the
\* relabelled primary raster has K distinct non-zero labels and maximum K.
C3_Conservation_claimed ==
    (pc = "done" /\ nvalues = Cardinality(nonzero(segmented))) =>
        /\ Cardinality(nonzero(targets[1].segmented)) = new_object_count
        /\ ArrMax(targets[1].segmented) = new_object_count

\* C3, amended: the same when the labels of the primary raster are exactly 1..N
\* and the measurement has N rows.
C3_Conservation ==
    (pc = "done" /\ nonzero(segmented) = 1..nvalues) =>
        /\ Cardinality(nonzero(targets[1].segmented)) = new_object_count
        /\ ArrMax(targets[1].segmented) = new_object_count

\* a pass over labels 1..2 that keeps object 2 only
C3_Witness ==
    /\ pc = "done" /\ nonzero(segmented) = 1..2 /\ nvalues = 2
    /\ indexes = <<2>> /\ nonzero(targets[1].segmented) = {1}

\* C4: a linked label raster is relabelled with the table built from the
\* primary raster: equal old labels get equal new labels in both rasters, a
\* linked label within max_label gets the table's entry and one above it gets 0.
C4_Linked ==
    (pc = "done" /\ Len(targets) = 2 /\ label_raster(targets[2].src)) =>
        LET prim == targets[1]
            link == targets[2]
        IN  /\ \A p \in DOMAIN prim.src : \A q \in DOMAIN link.src :
                  prim.src[p] = link.src[q] => prim.segmented[p] = link.segmented[q]
            /\ \A q \in DOMAIN link.src :
                  link.segmented[q] = IF link.src[q] <= max_label
                                      THEN label_indexes[link.src[q]] ELSE 0

\* primary and linked share old label 2, renumbered 1 in both, and the linked
\* raster also holds a label above max_label
C4_Witness ==
    /\ pc = "done" /\ Len(targets) = 2
    /\ \E p \in DOMAIN targets[1].src : \E q, r \in DOMAIN targets[2].src :
          /\ targets[1].src[p] = 2 /\ targets[2].src[q] = 2
          /\ targets[1].segmented[p] = 1 /\ targets[2].segmented[q] = 1
          /\ targets[2].src[r] > max_label

\* ------------------------------------------------------------- the strategies alone
\* the measurement group create_settings makes, holding the values v
default_group(v) ==
    [values |-> v, wants_minimum |-> TRUE, min_limit |-> min_limit_default,
     wants_maximum |-> TRUE, max_limit |-> max_limit_default]

\* the variables a strategy does not touch
run_state == <<rules_or_measurement, additional_objects, measurement_count,
               rules_error, saved, nvalues, label_indexes, targets>>

InitStrategy ==
    /\ rules_or_measurement = ROM_MEASUREMENTS
    /\ additional_objects = 0
    /\ rules_error = "none"
    /\ saved = not_saved
    /\ pc = "call"
    /\ exc = "none"
    /\ indexes = <<>>
    /\ best_pos = <<>>
    /\ nvalues = 0
    /\ label_indexes = <<>>
    /\ targets = <<>>

\* keep_one on a measurement of up to MaxN + 1 rows
InitOne ==
    /\ InitStrategy
    /\ filter_choice \in {FI_MINIMAL, FI_MAXIMAL}
    /\ measurements \in {<<default_group(v)>> : v \in SeqUpTo(Vals, MaxN + 1)}
    /\ measurement_count = Len(measurements)
    /\ segmented = [p \in Pix |-> 0]
    /\ enclosing_labels = <<>>

call_keep_one ==
    /\ pc = "call"
    /\ indexes' = keep_one(measurements[1].values, filter_choice)
    /\ pc' = "returned"
    /\ UNCHANGED <<filter_choice, segmented, function_inputs, exc, best_pos,
                   run_state>>

SpecOne == InitOne /\ [][call_keep_one]_vars

\* keep_within_limits on up to two measurement groups, the objects 1..NPix
InitLimits ==
    /\ InitStrategy
    /\ filter_choice = FI_LIMITS
    /\ measurements \in SeqUpTo(Groups, 2)
    /\ measurement_count = Len(measurements)
    /\ segmented = [p \in Pix |-> p]
    /\ enclosing_labels = <<>>

call_keep_within_limits ==
    /\ pc = "call"
    /\ \E lenient \in BOOLEAN :
          LET r == keep_within_limits(measurements, lenient)
          IN  /\ exc' = r.exc
              /\ indexes' = r.val
              /\ pc' = IF r.exc = "none" THEN "returned" ELSE "raised"
    /\ UNCHANGED <<filter_choice, segmented, function_inputs, best_pos, run_state>>

SpecLimits == InitLimits /\ [][call_keep_within_limits]_vars

\* keep_per_object on any child raster, enclosing raster and measurement
InitPerObject ==
    /\ InitStrategy
    /\ filter_choice \in {FI_MINIMAL_PER_OBJECT, FI_MAXIMAL_PER_OBJECT}
    /\ measurements \in {<<default_group(v)>> : v \in SeqUpTo(Vals, MaxN)}
    /\ measurement_count = Len(measurements)
    /\ segmented \in Rasters
    /\ enclosing_labels \in Rasters

call_keep_per_object ==
    /\ pc = "call"
    /\ \E r \in keep_per_object(measurements[1].values, segmented, enclosing_labels,
                                filter_choice) :
          /\ exc' = r.exc
          /\ indexes' = r.val
          /\ best_pos' = r.pos
          /\ pc' = IF r.exc = "none" THEN "returned" ELSE "raised"
    /\ UNCHANGED <<filter_choice, segmented, function_inputs, run_state>>

SpecPerObject == InitPerObject /\ [][call_keep_per_object]_vars

\* keep_by_rules on the scores the rules give, one row per object, held in
\* measurements; the rules file loads or get_rules raises
InitRules ==
    /\ rules_or_measurement = ROM_RULES
    /\ filter_choice = FI_LIMITS
    /\ additional_objects = 0
    /\ measurement_count = 1
    /\ rules_error \in {"none", "IOError"}
    /\ saved = not_saved
    /\ measurements \in SeqUpTo(ScoreVals \X ScoreVals, MaxN)
    /\ segmented = [p \in Pix |-> 0]
    /\ enclosing_labels = <<>>
    /\ pc = "call"
    /\ exc = "none"
    /\ indexes = <<>>
    /\ best_pos = <<>>
    /\ nvalues = 0
    /\ label_indexes = <<>>
    /\ targets = <<>>

call_keep_by_rules ==
    /\ pc = "call"
    /\ IF rules_error # "none"
       THEN exc' = rules_error /\ pc' = "raised" /\ UNCHANGED indexes
       ELSE /\ indexes' = keep_by_rules(measurements)
            /\ pc' = "returned"
            /\ UNCHANGED exc
    /\ UNCHANGED <<filter_choice, segmented, function_inputs, best_pos, run_state>>

SpecRules == InitRules /\ [][call_keep_by_rules]_vars

\* validate_module on any setting of the mode, the method and up to MaxN
\* measurement groups (their values are not read), with rules that load or not
InitValidate ==
    /\ rules_or_measurement \in {ROM_MEASUREMENTS, ROM_RULES}
    /\ filter_choice \in FI_ALL
    /\ additional_objects = 0
    /\ measurements \in SeqUpTo({g \in Groups : g.values = <<>>}, MaxN)
    /\ measurement_count = Len(measurements)
    /\ rules_error \in {"none", "IOError"}
    /\ saved = not_saved
    /\ segmented = [p \in Pix |-> 0]
    /\ enclosing_labels = <<>>
    /\ pc = "call"
    /\ exc = "none"
    /\ indexes = <<>>
    /\ best_pos = <<>>
    /\ nvalues = 0
    /\ label_indexes = <<>>
    /\ targets = <<>>

call_validate_module ==
    /\ pc = "call"
    /\ LET r == validate_module(rules_or_measurement, filter_choice, measurements,
                                rules_error)
       IN  /\ exc' = r.exc
           /\ pc' = IF r.exc = "none" THEN "returned" ELSE "raised"
    /\ UNCHANGED <<filter_choice, segmented, function_inputs, indexes, best_pos,
                   run_state>>

SpecValidate == InitValidate /\ [][call_validate_module]_vars

\* ------------------------------------------------------------- the saved formats
RECURSIVE repeat(_, _)
\* n copies of the list s, one after the other
repeat(s, n) == IF n = 0 THEN <<>> ELSE s \o repeat(s, n - 1)

\* the four settings saved for an additional object
additional_object_settings == <<"Cytoplasm", "FilteredCytoplasm", NO, "None">>

\* Matlab's KeepLargestObject: the source, enclosing and target objects
KeepLargestSaved ==
    {Saved(<<"Nuclei", "Cells", "LargestNuclei">>, 1, "KeepLargestObject", TRUE)}

\* Matlab's FilterByObjectMeasurement, revision 6 and (two names swapped) 5
MatlabSaved ==
    UNION {{Saved(<<"FilteredNuclei", "Nuclei", "AreaShape", "Area", "", "",
                    low, high, outlines>>, 6, "FilterByObjectMeasurement", TRUE),
            Saved(<<"Nuclei", "FilteredNuclei", "AreaShape", "Area", "", "",
                    low, high, outlines>>, 5, "FilterByObjectMeasurement", TRUE)} :
           <<low, high, outlines>> \in {"No minimum", "0.5"} \X {"No maximum", "2"}
                                        \X {DO_NOT_USE, "Outlines"}}

\* Matlab's FilterByObjectMeasurement, revision 7, with a rules file or none
Matlab7Saved ==
    {Saved(<<"FilteredNuclei", "Nuclei", "Intensity", "MeanIntensity", x[1], x[2],
             x[3], x[4], x[5], x[6], x[7]>>, 7, "FilterByObjectMeasurement", TRUE) :
        x \in {"", "OrigBlue"} \X {"", "3"} \X {"No minimum", "0.5"}
               \X {"No maximum", "2"} \X {DO_NOT_USE, "Outlines"}
               \X {DO_NOT_USE, "rules.txt"} \X {".", "&", "rules"}}

\* the module's own formats, revisions 1 to 3, with 0..MaxSlots additional objects
OwnSaved ==
    UNION {LET first == <<"FilteredNuclei", "Nuclei", "AreaShape_Area", choice,
                          "None", YES, "0", YES, "1", NO, "None">>
               more == repeat(additional_object_settings, k)
           IN  {Saved(first \o more, 1, module_name, FALSE),
                Saved(first \o <<ROM_MEASUREMENTS, DIR_DEFAULT_INPUT, ".">> \o more,
                      2, module_name, FALSE),
                Saved(first \o <<ROM_RULES, DIR_CUSTOM, "rules", "rules.txt">> \o more,
                      3, module_name, FALSE)} :
           <<choice, k>> \in FI_ALL \X (0..MaxSlots)}

InitUpgrade ==
    /\ rules_or_measurement = ROM_MEASUREMENTS
    /\ filter_choice = FI_LIMITS
    /\ additional_objects = 0
    /\ measurement_count = 1
    /\ rules_error = "none"
    /\ saved \in KeepLargestSaved \cup MatlabSaved \cup Matlab7Saved \cup OwnSaved
    /\ segmented = [p \in Pix |-> 0]
    /\ measurements = <<default_group(<<>>)>>
    /\ enclosing_labels = <<>>
    /\ pc = "call"
    /\ exc = "none"
    /\ indexes = <<>>
    /\ best_pos = <<>>
    /\ nvalues = 0
    /\ label_indexes = <<>>
    /\ targets = <<>>

\* the pipeline calls upgrade_settings with what the file holds and keeps
\* what it returns
call_upgrade_settings ==
    /\ pc = "call"
    /\ LET u == upgrade_settings(saved.setting_values, saved.variable_revision_number,
                                 saved.module_name, saved.from_matlab)
       IN  /\ exc' = u.exc
           /\ pc' = IF u.exc = "none" THEN "returned" ELSE "raised"
           /\ saved' = IF u.exc = "none"
                       THEN Saved(u.setting_values, u.variable_revision_number,
                                  saved.module_name, u.from_matlab)
                       ELSE saved
    /\ UNCHANGED <<rules_or_measurement, filter_choice, additional_objects,
                   measurement_count, rules_error, segmented, function_inputs,
                   indexes, best_pos, nvalues, label_indexes, targets>>

SpecUpgrade == InitUpgrade /\ [][call_upgrade_settings]_vars

\* what settings() saves for a module of m measurements and a additional objects
current_settings(m, a) ==
    <<"FilteredNuclei", "Nuclei", ROM_MEASUREMENTS, FI_LIMITS, "None", NO, "None",
      DIR_DEFAULT_INPUT, ".", "rules.txt", str(m), str(a)>>
    \o repeat(<<"AreaShape_Area", YES, "0", YES, "1">>, m)
    \o repeat(additional_object_settings, a)

\* prepare_settings on a module with 0..MaxSlots measurement groups and
\* additional objects, for saved settings with 0..MaxSlots of each
InitPrepare ==
    /\ rules_or_measurement = ROM_MEASUREMENTS
    /\ filter_choice = FI_LIMITS
    /\ additional_objects \in 0..MaxSlots
    /\ measurements \in {repeat(<<new_measurement>>, m) : m \in 0..MaxSlots}
    /\ measurement_count = Len(measurements)
    /\ rules_error = "none"
    /\ saved \in {Saved(current_settings(m, a), variable_revision_number,
                         module_name, FALSE) : m, a \in 0..MaxSlots}
    /\ segmented = [p \in Pix |-> 0]
    /\ enclosing_labels = <<>>
    /\ pc = "call"
    /\ exc = "none"
    /\ indexes = <<>>
    /\ best_pos = <<>>
    /\ nvalues = 0
    /\ label_indexes = <<>>
    /\ targets = <<>>

call_prepare_settings ==
    /\ pc = "call"
    /\ LET r == prepare_settings(additional_objects, measurements, saved.setting_values)
       IN  /\ exc' = r.exc
           /\ pc' = IF r.exc = "none" THEN "returned" ELSE "raised"
           /\ additional_objects' = r.additional
           /\ measurements' = r.groups
           /\ measurement_count' = Len(r.groups)
    /\ UNCHANGED <<rules_or_measurement, filter_choice, rules_error, saved, segmented,
                   enclosing_labels, indexes, best_pos, nvalues, label_indexes,
                   targets>>

SpecPrepare == InitPrepare /\ [][call_prepare_settings]_vars

\* ------------------------------------------------------------- claims on the strategies
ascending(seq) == \A i, j \in 1..Len(seq) : i < j => seq[i] < seq[j]
rows(g) == Len(g.values)
criteria == Range(measurements)
equal_rows == \A g, h \in criteria : rows(g) = rows(h)
\* object i satisfies every active bound of group g
within(g, i) ==
    /\ g.wants_minimum => g.values[i] >= g.min_limit
    /\ g.wants_maximum => g.values[i] <= g.max_limit

C6_ShortestGoverns_claimed ==
    (pc # "call" /\ Len(measurements) >= 1) =>
        /\ pc = "returned"
        /\ \A i \in Range(indexes) : \A g \in criteria : i <= rows(g)

\* C7 as claimed: with no criterion keep_within_limits raises nothing and keeps
\* every object, here the indexes 1..NPix.
C7_NoCriteria_claimed ==
    (pc # "call" /\ Len(measurements) = 0) =>
        /\ pc = "returned"
        /\ indexes = [i \in 1..NPix |-> i]

\* C8: keep_one returns nothing for an empty vector and otherwise the one
\* index of the first occurrence of the largest (Maximal) or smallest
\* (Minimal) value.
C8_KeepOne ==
    pc = "returned" =>
        LET V == measurements[1].values
            better(a, b) == IF filter_choice = FI_MAXIMAL THEN a > b ELSE a < b
        IN  IF Len(V) = 0 THEN indexes = <<>>
            ELSE /\ Len(indexes) = 1
                 /\ indexes[1] \in 1..Len(V)
                 /\ \A j \in 1..Len(V) : ~better(V[j], V[indexes[1]])
                 /\ \A j \in 1..(indexes[1] - 1) : V[j] # V[indexes[1]]

\* the largest value held by objects 2 and 3: object 2 is returned
C8_Witness ==
    /\ pc = "returned" /\ filter_choice = FI_MAXIMAL
    /\ measurements[1].values = <<0, 1, 1>> /\ indexes = <<2>>

\* the child objects with a pixel inside enclosing region e
children(e) ==
    {segmented[p] : p \in {q \in Pix : enclosing_labels[q] = e}} \ {0}

\* C9: when keep_per_object returns, for every enclosing label e of
\* 1..enclosing_max holding a pixel of a child object, the result contains a
\* child of e whose value is the largest (smallest) among the children of e.
C9_PerObjectBest ==
    pc = "returned" =>
        LET V == measurements[1].values
            better(a, b) == IF filter_choice = FI_MAXIMAL_PER_OBJECT THEN a > b
                            ELSE a < b
        IN  \A e \in 1..ArrMax(enclosing_labels) :
                children(e) # {} =>
                    \E c \in children(e) :
                        /\ c \in Range(indexes)
                        /\ \A d \in children(e) : ~better(V[d], V[c])

\* region 1 holds children 1 and 2, the larger value is object 2's, kept alone
C9_Witness ==
    /\ pc = "returned" /\ filter_choice = FI_MAXIMAL_PER_OBJECT
    /\ children(1) = {1, 2}
    /\ measurements[1].values[1] < measurements[1].values[2]
    /\ indexes = <<2>>

\* C10 as claimed: when keep_per_object returns, the result holds no 0 and no
\* duplicate, is ascending, every child label an enclosing label contributed
\* has a pixel inside that region, and the result is empty when the enclosing
\* raster has no label.
C10_NoStranger_claimed ==
    pc = "returned" =>
        /\ 0 \notin Range(indexes)
        /\ ascending(indexes)
        /\ \A e \in DOMAIN best_pos :
              segmented[best_pos[e]] # 0 => segmented[best_pos[e]] \in children(e)
        /\ ArrMax(enclosing_labels) = 0 => indexes = <<>>

\* C11: keep_by_rules returns, in ascending order, exactly the rows whose two
\* scores are both numbers with the positive score strictly above the
\* negative one; a row with a not-a-number score is never kept, whatever the
\* other score, and equal scores are rejected.
C11_RuleFilter ==
    pc = "returned" =>
        /\ ascending(indexes)
        /\ Range(indexes) =
              {i \in 1..Len(measurements) :
                  /\ measurements[i][1] # NaN
                  /\ measurements[i][2] # NaN
                  /\ measurements[i][1] > measurements[i][2]}

\* a not-a-number positive score against minus infinity is rejected, 1 against
\* 0 is kept
C11_Witness ==
    /\ pc = "returned"
    /\ measurements = <<(<<NaN, NegInf>>), (<<1, 0>>)>>
    /\ indexes = <<2>>


\* C12 as claimed: under every strategy the selection handed to the relabel
\* step is strictly increasing with every index in 1..max_label, also when the
\* measurement has more rows than the raster has labels, so that building the
\* table never indexes outside it.
C12_SelectionInRange_claimed ==
    /\ ascending(indexes)
    /\ \A k \in 1..Len(indexes) : indexes[k] \in 1..max_label
    /\ ~(pc = "raised" /\ exc = "IndexError" /\ indexes # <<>>)

\* the strategy has what it reads: a measurement group, or rules that load
configured ==
    IF rules_or_measurement = ROM_RULES THEN rules_error = "none"
    ELSE measurement_count >= 1

\* C13: on a primary raster without objects (max_label = 0) and a measurement
\* (or score matrix) without rows, run under every strategy selects nothing,
\* counts 0 objects, relabels the primary raster to zeros of the same shape
\* and raises nothing while it selects, builds the table and relabels the
\* primary objects (an error can only come from a linked raster later in the
\* list).
C13_EmptyInput ==
    (pc # "select" /\ max_label = 0 /\ nvalues = 0 /\ configured) =>
        /\ indexes = <<>>
        /\ new_object_count = 0
        /\ pc = "raised" => Len(targets) >= 1
        /\ Len(targets) >= 1 =>
              /\ DOMAIN targets[1].segmented = DOMAIN segmented
              /\ \A p \in DOMAIN segmented : targets[1].segmented[p] = 0

\* the best object per enclosing object, on an empty raster
C13_Witness ==
    /\ pc = "done" /\ max_label = 0 /\ nvalues = 0 /\ measurement_count = 1
    /\ filter_choice = FI_MAXIMAL_PER_OBJECT /\ rules_or_measurement = ROM_MEASUREMENTS
    /\ indexes = <<>> /\ targets[1].segmented = [p \in Pix |-> 0]

\* C14 as claimed: with a measurement of fewer rows than the raster has objects,
\* every measurement-driven strategy keeps no object beyond the rows and run
\* raises nothing in the selection, the table and the primary objects.
C14_ShortVector_claimed ==
    (pc # "select" /\ rules_or_measurement = ROM_MEASUREMENTS
        /\ measurement_count >= 1 /\ nvalues < max_label) =>
        /\ \A k \in 1..Len(indexes) : indexes[k] <= nvalues
        /\ pc = "raised" => Len(targets) >= 1

\* C15 as claimed: run rejects a raster holding a negative label with an
\* error, so no target is ever made from such a raster.
C15_NegativeRejected_claimed ==
    \A k \in 1..Len(targets) : label_raster(targets[k].src)

\* C16: the parent record run stores for the primary and for each linked
\* object set has K entries, K the number of survivors; entry j is the old
\* index of new object j, that is the table maps parent[j] to j and
\* parent[table[i]] is i for every survivor i; every object set of the pass
\* gets the same record.
C16_ParentRecord ==
    \A k \in 1..Len(targets) :
        LET parent == targets[k].parent
        IN  /\ Len(parent) = new_object_count
            /\ \A j \in 1..new_object_count : label_indexes[parent[j]] = j
            /\ \A i \in survivors : parent[label_indexes[i]] = i
            /\ parent = targets[1].parent

\* object 2 survives alone: new object 1 comes
\* from old object 2, in the primary's record and in the linked one's
C16_Witness ==
    /\ pc = "done" /\ Len(targets) = 2
    /\ indexes = <<2>>
    /\ targets[1].parent = <<2>> /\ targets[2].parent = <<2>>
    /\ label_indexes[2] = 1

\* C17: when the labels of the primary raster are exactly 1..N and all of
\* 1..N survive, the table is the identity, the relabelled primary raster is
\* the input raster, and a second pass over the output with the same
\* survivors gives the output again.
C17_Idempotent ==
    (pc = "done" /\ nonzero(segmented) = 1..max_label
        /\ indexes = [i \in 1..max_label |-> i]) =>
        LET out == targets[1].segmented
            again == build_label_indexes(indexes, ArrMax(out))
        IN  /\ label_indexes = [v \in 0..max_label |-> v]
            /\ out = segmented
            /\ again.exc = "none"
            /\ relabel(out, again.val, ArrMax(out)) = out

\* objects 1 and 2, both kept
C17_Witness ==
    /\ pc = "done" /\ segmented = <<1, 2>> /\ indexes = <<1, 2>>
    /\ targets[1].segmented = <<1, 2>>

\* C18 as claimed: when run fails, at whatever point, the workspace holds no
\* target objects and no measurement of the pass.
C18_AllOrNothing_claimed ==
    pc = "raised" => targets = <<>>

\* a criterion with neither bound enabled
unbounded(g) == ~g.wants_minimum /\ ~g.wants_maximum

\* C19: validate_module raises ValidationError whenever the Limits method is
\* set in measurement mode and some criterion has neither bound enabled, and
\* whenever rule mode is set and loading the rules raises; it raises nothing
\* for a Limits setting in which every criterion has a bound enabled.
C19_Validation ==
    pc # "call" =>
        LET limits == rules_or_measurement = ROM_MEASUREMENTS /\ filter_choice = FI_LIMITS
            refused == pc = "raised" /\ exc = "ValidationError"
        IN  /\ (limits /\ \E g \in criteria : unbounded(g)) => refused
            /\ (rules_or_measurement = ROM_RULES /\ rules_error # "none") => refused
            /\ (limits /\ \A g \in criteria : ~unbounded(g)) => pc = "returned"

\* two criteria, the first with a bound and the second with none: refused
C19_Witness ==
    /\ pc = "raised" /\ exc = "ValidationError"
    /\ rules_or_measurement = ROM_MEASUREMENTS /\ filter_choice = FI_LIMITS
    /\ Len(measurements) = 2
    /\ ~unbounded(measurements[1]) /\ unbounded(measurements[2])

\* C20: for the primary and for each linked object set, the target holds the
\* source's unedited segmentation unchanged, it has the source's parent image
\* if and only if the source has one, and the source's own labels are left as
\* they were (the primary source still holds the raster that was read).
C20_PassThrough ==
    \A k \in 1..Len(targets) :
        LET t == targets[k]
        IN  /\ t.unedited_segmented = t.src_unedited
            /\ (t.parent_image # "none") <=> (t.src_parent_image # "none")
            /\ t.parent_image = t.src_parent_image
            /\ k = 1 => t.src = segmented

\* a primary source with a parent image and an unedited segmentation of its
\* own, one of its objects removed; a linked source without a parent image
C20_Witness ==
    /\ pc = "done" /\ Len(targets) = 2
    /\ targets[1].parent_image = "image"
    /\ targets[1].unedited_segmented # targets[1].src
    /\ targets[1].segmented # targets[1].src
    /\ targets[1].segmented # targets[1].unedited_segmented
    /\ targets[2].parent_image = "none"
    /\ targets[2].segmented # targets[2].src

\* C21 as claimed: for every supported saved format upgrade_settings returns
\* without error, with revision 4 and from_matlab False, a list of 12 fixed
\* settings, 5 of one measurement and 4 per additional object, the
\* measurement count "1" at position 10 and the count of additional objects at
\* position 11.
C21_UpgradeSettings_claimed ==
    pc # "call" =>
        /\ pc = "returned"
        /\ saved.variable_revision_number = variable_revision_number
        /\ saved.from_matlab = FALSE
        /\ Len(saved.setting_values) >= 12
        /\ at(saved.setting_values, 10) = "1"
        /\ is_int(at(saved.setting_values, 11))
        /\ Len(saved.setting_values) = 12 + 5 + 4 * int(at(saved.setting_values, 11))

\* C22 as claimed: from any numbers of measurement groups and of additional
\* objects, larger or smaller than the saved ones, prepare_settings returns
\* without raising, and then the module has int(setting_values[10])
\* measurement groups and int(setting_values[11]) additional objects.
C22_PrepareSettings_claimed ==
    pc # "call" =>
        /\ pc = "returned"
        /\ Len(measurements) = int(at(saved.setting_values, 10))
        /\ measurement_count = int(at(saved.setting_values, 10))
        /\ additional_objects = int(at(saved.setting_values, 11))

=============================================================================
